---- MODULE Spec2Model ----
(***************************************************************************)
(* Player-base enrichment of center_court: the Wikipedia Enrichment Engine *)
(* (scrape_wiki_wta.enrich_csv), its Change Ledger (overwrite_changes.csv) *)
(* and the Revert Tool (revert_overwrites.py), as a state machine over the *)
(* two persisted files and the in-memory state of one enrichment run.      *)
(*                                                                         *)
(* Values.  A persisted cell is a string ("" = unknown).  In memory a cell *)
(* is a tagged value, because pandas types it: the five target columns are *)
(* read as strings, except birth_date, which read_csv(parse_dates=...)     *)
(* turns into Timestamp / NaT when every value of the column parses.  A    *)
(* date is identified by its calendar day; the text layout of a date       *)
(* (ISO or "Mar 3 1995") is not modelled.                                  *)
(***************************************************************************)
EXTENDS Integers, Sequences, FiniteSets, TLC

VARIABLES
    players_csv,    \* the persisted player table, the file at players_path
    summary_exists, \* os.path.exists(summary_csv)
    summary_csv,    \* the persisted Change Ledger: a sequence of Change Records
    ranks,          \* the ranking observations under rankings_dir
    pc,             \* position of the enrichment run: idle, loop, write_summary,
                    \* aborted, killed
    cfg,            \* the arguments of the run in progress
    prev_rejects,   \* the (player_id, column) pairs read from the prior ledger
    df,             \* the in-memory table of the run
    end_index,      \* the resolved end of the batch
    pos,            \* loop variable of the batch loop
    changes,        \* Change Records collected by the run
    stdout,         \* what the batch loop printed for the last player
    new_data,       \* the candidate values of the last player the loop scraped
    rejected,       \* history: every (player_id, column) a reviewer has flagged
    scrape,         \* the locals of scrape_data and of the fetch it is in
    main            \* a run of main.py after the scraper: its stage, its settings, the
                    \* file at output_path when that is another file than
                    \* players_path, and what its stages wrote

vars == <<players_csv, summary_exists, summary_csv, ranks, pc, cfg, prev_rejects,
          df, end_index, pos, changes, stdout, new_data, rejected, scrape, main>>

-----------------------------------------------------------------------------
(* Bounds of the model *)

MaxRejects == 1
MaxWeeks == 2
MaxDates == 2

-----------------------------------------------------------------------------
(* Python and pandas values *)

None == "<None>"

Str(s) == [k |-> "str", v |-> s]
Timestamp(d) == [k |-> "ts", v |-> d]
NaT == [k |-> "nat", v |-> ""]

\* bool(x): only the empty string is falsy; a Timestamp and NaT are truthy
Truthy(x) == ~(x.k = "str" /\ x.v = "")

\* new_val == old_val, new_val a str: a str never equals a Timestamp or NaT
PyEq(new_val, old_val) == old_val.k = "str" /\ old_val.v = new_val

\* x or ''
OrEmpty(x) == IF x = None \/ x = "" THEN "" ELSE x

target_cols == <<"height_inches", "height_cm", "plays", "birth_date", "birthplace">>

\* calendar days the model uses, and a legacy free-text value no parser accepts
Dates == {"1995-03-03", "1996-04-04"}
LegacyDate == "c. 1990"

-----------------------------------------------------------------------------
(* CSV reading and writing of the player table *)

\* read_csv converts a date column only when every value of it parses
ParsesAsDates(csv) == \A i \in DOMAIN csv : csv[i]["birth_date"] \in Dates \cup {""}

to_datetime(s) == IF s = "" THEN NaT ELSE Timestamp(s)

read_csv(csv) ==
    [i \in DOMAIN csv |->
        [csv[i] EXCEPT !["height_inches"] = Str(@),
                       !["height_cm"] = Str(@),
                       !["plays"] = Str(@),
                       !["birthplace"] = Str(@),
                       !["birth_date"] = IF ParsesAsDates(csv) THEN to_datetime(@)
                                         ELSE Str(@)]]

\* to_csv writes NaT as the empty field
to_csv(d) ==
    [i \in DOMAIN d |->
        [d[i] EXCEPT !["height_inches"] = @.v,
                     !["height_cm"] = @.v,
                     !["plays"] = @.v,
                     !["birthplace"] = @.v,
                     !["birth_date"] = @.v]]

IsDatetimeColumn(d) == \A i \in DOMAIN d : d[i]["birth_date"].k # "str"

\* df.at[idx, col] = new_val: a datetime64 column parses the string it is given
set_at(d, idx, col, new_val) ==
    [d EXCEPT ![idx + 1][col] =
        IF col = "birth_date" /\ IsDatetimeColumn(d) THEN Timestamp(new_val)
        ELSE Str(new_val)]

-----------------------------------------------------------------------------
(* The prior ledger *)

load_prev_rejects(exists, summary) ==
    IF ~exists THEN {}
    ELSE {<<summary[i].player_id, summary[i].column>> :
            i \in {j \in DOMAIN summary : summary[j].reject = "1"}}

-----------------------------------------------------------------------------
(* Active players *)

Max(S) == CHOOSE x \in S : \A y \in S : y <= x

\* mutant: a player of any snapshot counts as active
active_ids_any(rk) == {rk[i].player_id : i \in DOMAIN rk}

\* rk is the concatenation of the weekly ranking files
active_ids(rk) ==
    LET max_date == Max({rk[i].date : i \in DOMAIN rk})
    IN {rk[i].player_id : i \in {j \in DOMAIN rk : rk[j].date = max_date}}

RECURSIVE active_from(_, _, _)
active_from(d, ids, i) ==
    IF i > Len(d) THEN <<>>
    ELSE (IF d[i].player_id \in ids THEN <<i - 1>> ELSE <<>>) \o active_from(d, ids, i + 1)

active_idxs(d, rk) == active_from(d, active_ids(rk), 1)

-----------------------------------------------------------------------------
(* Wikipedia *)

\* what scrape_wiki_player finds in the infobox of a page
InfoA == [height_ft |-> "5 ft 9 in", height_m |-> "1.75 m", plays |-> "Right-Handed",
          birth_date |-> "1995-03-03", birth_place |-> "Miami, Florida, U.S."]
InfoB == [height_ft |-> "175", height_m |-> "1.80 m", plays |-> None,
          birth_date |-> "1996-04-04", birth_place |-> None]
\* a page whose bday text pd.to_datetime rejects
InfoC == [height_ft |-> None, height_m |-> None, plays |-> None,
          birth_date |-> "circa 1990", birth_place |-> "Paris, France"]
Infos == {InfoA, InfoB}

\* outcomes of session.get and of the parse of the page
Responses ==
    {[kind |-> k, info |-> InfoA] :
        k \in {"conn_error", "404", "403", "429", "no_infobox", "bad_born"}}
    \cup {[kind |-> "page", info |-> i] : i \in Infos \cup {InfoC}}

scrape_wiki_player(resp) ==
    CASE resp.kind = "conn_error" -> [exc |-> "RuntimeError", out |-> resp.info]
      [] resp.kind = "404" -> [exc |-> "FileNotFoundError", out |-> resp.info]
      [] resp.kind \in {"403", "429"} -> [exc |-> "HTTPError", out |-> resp.info]
      [] resp.kind = "no_infobox" -> [exc |-> "ValueError", out |-> resp.info]
      [] resp.kind = "bad_born" -> [exc |-> "ValueError", out |-> resp.info]
      [] OTHER -> [exc |-> "", out |-> resp.info]

format_heights(ft, m) ==
    [h_in |-> CASE ft = "5 ft 9 in" -> "5' 9\""
                [] ft = "5 ft 11 in" -> "5' 11\""
                [] OTHER -> None,
     h_m |-> CASE m = "1.75 m" -> "1.75m"
               [] m = "1.80 m" -> "1.80m"
               [] OTHER -> None]

normalize_birthplace(place) ==
    CASE place = None -> None
      [] place = "Miami, Florida, U.S." -> "Miami, FL, U.S."
      [] OTHER -> place

new_data_of(info) ==
    LET h == format_heights(info.height_ft, info.height_m)
    IN [height_inches |-> OrEmpty(h.h_in),
        height_cm |-> OrEmpty(h.h_m),
        plays |-> OrEmpty(info.plays),
        birth_date |-> OrEmpty(info.birth_date),
        birthplace |-> OrEmpty(normalize_birthplace(info.birth_place))]

-----------------------------------------------------------------------------
(* The per-field decision policy and the body of the batch loop *)

\* mutant: the threshold date itself counts as recent enough
allow_over_ge(c, row) ==
    c.overwrite /\ (c.min_first_date = <<>> \/ row.first_appearance >= c.min_first_date[1])

allow_over_of(c, row) ==
    c.overwrite /\ (c.min_first_date = <<>> \/ row.first_appearance > c.min_first_date[1])

\* mutant: the prior rejections are not consulted
skip_field_no_reject(pid, col, new_val, old_val, allow_over, rejects) ==
    \/ (new_val = "" /\ Truthy(old_val))
    \/ PyEq(new_val, old_val)
    \/ (Truthy(old_val) /\ ~allow_over)

\* mutant: a blank candidate is treated like any other
skip_field_no_blank(pid, col, new_val, old_val, allow_over, rejects) ==
    \/ <<pid, col>> \in rejects
    \/ PyEq(new_val, old_val)
    \/ (Truthy(old_val) /\ ~allow_over)

\* mutant: the overwrite gate is missing
skip_field_no_gate(pid, col, new_val, old_val, allow_over, rejects) ==
    \/ <<pid, col>> \in rejects
    \/ (new_val = "" /\ Truthy(old_val))
    \/ PyEq(new_val, old_val)

\* the four skip rules of a field, in the order the code tests them
skip_field(pid, col, new_val, old_val, allow_over, rejects) ==
    \/ <<pid, col>> \in rejects
    \/ (new_val = "" /\ Truthy(old_val))
    \/ PyEq(new_val, old_val)
    \/ (Truthy(old_val) /\ ~allow_over)

RECURSIVE apply_new_data(_, _, _, _, _, _, _)
apply_new_data(d, ch, idx, nd, allow_over, rejects, k) ==
    IF k > Len(target_cols) THEN [df |-> d, changes |-> ch]
    ELSE
        LET col == target_cols[k]
            new_val == nd[col]
            old_val == d[idx + 1][col]
            pid == d[idx + 1].player_id
        IN IF skip_field(pid, col, new_val, old_val, allow_over, rejects) THEN apply_new_data(d, ch, idx, nd, allow_over, rejects, k + 1)
           ELSE apply_new_data(
                    set_at(d, idx, col, new_val),
                    Append(ch, [player_id |-> pid,
                                player_name |-> d[idx + 1].full_name,
                                column |-> col,
                                row_index |-> idx,
                                old_value |-> old_val,
                                new_value |-> new_val]),
                    idx, nd, allow_over, rejects, k + 1)

NoData == [height_inches |-> "", height_cm |-> "", plays |-> "", birth_date |-> "",
           birthplace |-> ""]

\* mutant: a page without infobox is not handled
caught_no_value == {"FileNotFoundError", "RuntimeError"}

\* except (FileNotFoundError, RuntimeError, ValueError)
caught == {"FileNotFoundError", "RuntimeError", "ValueError"}

\* one iteration of the batch loop, for the row idx and the response resp
loop_body(d, ch, idx, resp, c, rejects) ==
    LET row == d[idx + 1]
        r == scrape_wiki_player(resp)
        stay == [df |-> d, changes |-> ch, exc |-> "", said |-> "", new_data |-> NoData]
    IN
    IF \A k \in 1..Len(target_cols) : Truthy(row[target_cols[k]])
    THEN [stay EXCEPT !.said = "SKIP_FILLED"]
    ELSE IF r.exc \in caught
    THEN [stay EXCEPT !.said = "SKIP " \o r.exc]
    ELSE IF r.exc # ""
    THEN [stay EXCEPT !.exc = r.exc]
    ELSE IF r.out.birth_date \notin Dates \cup {None}
    THEN [stay EXCEPT !.exc = "DateParseError"]
    ELSE LET nd == new_data_of(r.out)
             a == apply_new_data(d, ch, idx, nd, allow_over_of(c, row), rejects, 1)
         IN [df |-> a.df, changes |-> a.changes, exc |-> "", said |-> "OK",
             new_data |-> nd]

\* mutant: the first Change Record of the run is not written to the ledger
summary_rows_tail(ch, rejects) ==
    [i \in 1..(Len(ch) - 1) |->
        [player_id |-> ch[i + 1].player_id,
         player_name |-> ch[i + 1].player_name,
         column |-> ch[i + 1].column,
         row_index |-> ch[i + 1].row_index,
         old_value |-> ch[i + 1].old_value.v,
         new_value |-> ch[i + 1].new_value,
         reject |-> IF <<ch[i + 1].player_id, ch[i + 1].column>> \in rejects THEN "1" ELSE ""]]

\* the ledger rows written for the collected changes
summary_rows(ch, rejects) ==
    [i \in DOMAIN ch |->
        [player_id |-> ch[i].player_id,
         player_name |-> ch[i].player_name,
         column |-> ch[i].column,
         row_index |-> ch[i].row_index,
         old_value |-> ch[i].old_value.v,
         new_value |-> ch[i].new_value,
         reject |-> IF <<ch[i].player_id, ch[i].column>> \in rejects THEN "1" ELSE ""]]

\* the batch loop from position p, resps[p] being the response for position p
RECURSIVE batch_loop(_, _, _, _, _, _, _, _)
batch_loop(d, ch, p, e, resps, c, rejects, rk) ==
    IF p >= e THEN [df |-> d, changes |-> ch, exc |-> ""]
    ELSE LET r == loop_body(d, ch, active_idxs(d, rk)[p + 1], resps[p], c, rejects)
         IN IF r.exc # "" THEN [df |-> d, changes |-> ch, exc |-> r.exc]
            ELSE batch_loop(r.df, r.changes, p + 1, e, resps, c, rejects, rk)

\* a whole run of enrich_csv as a function of the files and the responses
enrich_csv(csv, exists, summary, rk, c, resps) ==
    LET rejects == load_prev_rejects(exists, summary)
        d == read_csv(csv)
        n == Len(active_idxs(d, rk))
        e == IF c.end_index = <<>> \/ c.end_index[1] > n THEN n ELSE c.end_index[1]
        r == batch_loop(d, <<>>, c.start_index, e, resps, c, rejects, rk)
    IN IF r.exc # ""
       THEN [players_csv |-> csv, summary_exists |-> exists, summary_csv |-> summary,
             changes |-> <<>>, exc |-> r.exc]
       ELSE [players_csv |-> to_csv(r.df),
             summary_exists |-> exists \/ r.changes # <<>>,
             summary_csv |-> IF r.changes # <<>> THEN summary_rows(r.changes, rejects)
                             ELSE summary,
             changes |-> r.changes, exc |-> ""]

-----------------------------------------------------------------------------
(* Initial state *)

\* scrape_data is not running
NotScraping == [pc |-> "off", date |-> 0, attempt |-> 0, page |-> 0, temp_data |-> 0,
                tries |-> 0, saved |-> {}, failed |-> {}]

\* main.py is not running; players_path and output_path are one file (config.py)
NotMain == [stage |-> "off", same_path |-> TRUE, output_csv |-> <<>>,
            overwrite_ioc |-> FALSE, merged |-> <<>>, accepted |-> <<>>,
            codes |-> <<>>]

RowEmpty == [height_inches |-> "", height_cm |-> "", plays |-> "",
             birth_date |-> "", birthplace |-> ""]
RowPartial == [height_inches |-> "5' 9\"", height_cm |-> "1.75m", plays |-> "",
               birth_date |-> "1995-03-03", birthplace |-> ""]
RowFull == [height_inches |-> "5' 9\"", height_cm |-> "1.75m", plays |-> "Right-Handed",
            birth_date |-> "1995-03-03", birthplace |-> "Miami, FL, U.S."]

Player(pid, name, first, cells) ==
    [player_id |-> pid, full_name |-> name, first_appearance |-> first,
     height_inches |-> cells.height_inches, height_cm |-> cells.height_cm,
     plays |-> cells.plays, birth_date |-> cells.birth_date,
     birthplace |-> cells.birthplace]

\* the ranking files of four weeks; player 1003 is absent from the latest one
Rankings ==
    <<[full_name |-> "C", player_id |-> 1003, ranking |-> 7, date |-> 1],
      [full_name |-> "B", player_id |-> 1002, ranking |-> 9, date |-> 2],
      [full_name |-> "A", player_id |-> 1001, ranking |-> 5, date |-> 3],
      [full_name |-> "A", player_id |-> 1001, ranking |-> 4, date |-> 4],
      [full_name |-> "B", player_id |-> 1002, ranking |-> 9, date |-> 4]>>

Configs ==
    [start_index : {0}, end_index : {<<>>}, overwrite : BOOLEAN,
     min_first_date : {<<>>, <<2>>, <<3>>}]

Init ==
    /\ \E b3 \in {"1996-04-04", LegacyDate} :
          players_csv = << Player(1001, "A", 3, RowEmpty),
                           Player(1002, "B", 2, RowPartial),
                           Player(1003, "C", 1, [RowFull EXCEPT !.birth_date = b3]) >>
    /\ summary_exists = FALSE
    /\ summary_csv = <<>>
    /\ ranks = Rankings
    /\ pc = "idle"
    /\ cfg \in Configs
    /\ prev_rejects = {}
    /\ df = <<>>
    /\ end_index = 0
    /\ pos = 0
    /\ changes = <<>>
    /\ stdout = ""
    /\ new_data = NoData
    /\ rejected = {}
    /\ scrape = NotScraping
    /\ main = NotMain

\* batches of the active players: from the first or the second one, up to the end,
\* up to the first one, or up to an end past the last one
BatchConfigs ==
    [start_index : {0, 1}, end_index : {<<>>, <<1>>, <<3>>}, overwrite : BOOLEAN,
     min_first_date : {<<>>}]

\* a table whose non-active player 1003 has empty cells, and a batch of the run
InitBatch ==
    /\ \E b3 \in {"1996-04-04", LegacyDate} :
          players_csv = << Player(1001, "A", 3, RowEmpty),
                           Player(1002, "B", 2, RowPartial),
                           Player(1003, "C", 1, [RowPartial EXCEPT !.birth_date = b3]) >>
    /\ summary_exists = FALSE
    /\ summary_csv = <<>>
    /\ ranks = Rankings
    /\ pc = "idle"
    /\ cfg \in BatchConfigs
    /\ prev_rejects = {}
    /\ df = <<>>
    /\ end_index = 0
    /\ pos = 0
    /\ changes = <<>>
    /\ stdout = ""
    /\ new_data = NoData
    /\ rejected = {}
    /\ scrape = NotScraping
    /\ main = NotMain

-----------------------------------------------------------------------------
(* The enrichment run *)

\* no run is in progress: the last one ended, was aborted by an exception or was killed
Stopped == {"idle", "aborted", "killed"}

\* enrich_csv up to the batch loop
StartRun ==
    /\ pc \in Stopped
    /\ LET c == cfg
            d == read_csv(players_csv)
            n == Len(active_idxs(d, ranks))
        IN /\ cfg' = c
           /\ prev_rejects' = load_prev_rejects(summary_exists, summary_csv)
           /\ df' = d
           /\ end_index' = IF c.end_index = <<>> \/ c.end_index[1] > n THEN n
                           ELSE c.end_index[1]
           /\ pos' = c.start_index
    /\ changes' = <<>>
    /\ stdout' = ""
    /\ new_data' = NoData
    /\ pc' = "loop"
    /\ UNCHANGED <<players_csv, summary_exists, summary_csv, ranks, rejected>>
    /\ UNCHANGED <<scrape, main>>

\* mutant: the table is saved after every player
EnrichPlayer_saving ==
    /\ pc = "loop"
    /\ pos < end_index
    /\ \E resp \in Responses :
        LET idx == active_idxs(df, ranks)[pos + 1]
            r == loop_body(df, changes, idx, resp, cfg, prev_rejects)
        IN IF r.exc # ""
           THEN \* the exception leaves enrich_csv: nothing is written
                /\ pc' = "aborted"
                /\ stdout' = r.exc
                /\ new_data' = NoData
                /\ df' = <<>>
                /\ changes' = <<>>
                /\ prev_rejects' = {}
                /\ cfg' = cfg
                /\ pos' = 0
                /\ end_index' = 0
           ELSE /\ pc' = "loop"
                /\ stdout' = r.said
                /\ new_data' = r.new_data
                /\ df' = r.df
                /\ changes' = r.changes
                /\ pos' = pos + 1
                /\ UNCHANGED <<prev_rejects, cfg, end_index>>
    /\ players_csv' = to_csv(df')
    /\ UNCHANGED <<summary_exists, summary_csv, ranks, rejected>>
    /\ UNCHANGED <<scrape, main>>

\* one iteration of the batch loop
EnrichPlayer ==
    /\ pc = "loop"
    /\ pos < end_index
    /\ \E resp \in Responses :
        LET idx == active_idxs(df, ranks)[pos + 1]
            r == loop_body(df, changes, idx, resp, cfg, prev_rejects)
        IN IF r.exc # ""
           THEN \* the exception leaves enrich_csv: nothing is written
                /\ pc' = "aborted"
                /\ stdout' = r.exc
                /\ new_data' = NoData
                /\ df' = <<>>
                /\ changes' = <<>>
                /\ prev_rejects' = {}
                /\ cfg' = cfg
                /\ pos' = 0
                /\ end_index' = 0
           ELSE /\ pc' = "loop"
                /\ stdout' = r.said
                /\ new_data' = r.new_data
                /\ df' = r.df
                /\ changes' = r.changes
                /\ pos' = pos + 1
                /\ UNCHANGED <<prev_rejects, cfg, end_index>>
    /\ UNCHANGED <<players_csv, summary_exists, summary_csv, ranks, rejected>>
    /\ UNCHANGED <<scrape, main>>

\* the process is killed during the batch loop or between the writes: no handler
\* runs, the files stay as the completed writes left them
Kill ==
    /\ pc \in {"loop", "write_summary"}
    /\ pc' = "killed"
    /\ stdout' = ""
    /\ new_data' = NoData
    /\ df' = <<>>
    /\ changes' = <<>>
    /\ prev_rejects' = {}
    /\ cfg' = cfg
    /\ pos' = 0
    /\ end_index' = 0
    /\ UNCHANGED <<players_csv, summary_exists, summary_csv, ranks, rejected>>
    /\ UNCHANGED <<scrape, main>>

\* df.to_csv(output_csv) after the loop
WriteTable ==
    /\ pc = "loop"
    /\ pos >= end_index
    /\ players_csv' = to_csv(df)
    /\ pc' = "write_summary"
    /\ UNCHANGED <<summary_exists, summary_csv, ranks, cfg, prev_rejects, df, end_index,
                   pos, changes, stdout, new_data, rejected>>
    /\ UNCHANGED <<scrape, main>>

LogWritten == "Change log with preserved rejects"
NoNewOverwrites == "No new overwrites to log."

\* mutant: the ledger is written whether or not the run collected a change
WriteSummary_always ==
    /\ pc = "write_summary"
    /\ summary_csv' = summary_rows(changes, prev_rejects)
    /\ summary_exists' = TRUE
    /\ stdout' = LogWritten
    /\ players_csv' = to_csv(df)
    /\ pc' = "idle"
    /\ df' = <<>>
    /\ changes' = <<>>
    /\ prev_rejects' = {}
    /\ cfg' = cfg
    /\ pos' = 0
    /\ end_index' = 0
    /\ new_data' = NoData
    /\ UNCHANGED <<ranks, rejected>>
    /\ UNCHANGED <<scrape, main>>

\* the ledger is written when the run collected changes; then the table again
WriteSummary ==
    /\ pc = "write_summary"
    /\ IF changes # <<>>
       THEN /\ summary_csv' = summary_rows(changes, prev_rejects)
            /\ summary_exists' = TRUE
            /\ stdout' = LogWritten
       ELSE /\ UNCHANGED <<summary_csv, summary_exists>>
            /\ stdout' = NoNewOverwrites
    /\ players_csv' = to_csv(df)
    /\ pc' = "idle"
    /\ df' = <<>>
    /\ changes' = <<>>
    /\ prev_rejects' = {}
    /\ cfg' = cfg
    /\ pos' = 0
    /\ end_index' = 0
    /\ new_data' = NoData
    /\ UNCHANGED <<ranks, rejected>>
    /\ UNCHANGED <<scrape, main>>

-----------------------------------------------------------------------------
(* The reviewer and the Revert Tool *)

\* a reviewer hand-edits the reject field of a ledger row to "1"
MarkReject ==
    /\ pc \in Stopped
    /\ summary_exists
    /\ Cardinality(rejected) < MaxRejects
    /\ \E i \in DOMAIN summary_csv :
        /\ summary_csv[i].reject = ""
        /\ summary_csv' = [summary_csv EXCEPT ![i].reject = "1"]
        /\ rejected' = rejected \cup {<<summary_csv[i].player_id, summary_csv[i].column>>}
    /\ UNCHANGED <<players_csv, summary_exists, ranks, pc, cfg, prev_rejects, df,
                   end_index, pos, changes, stdout, new_data>>
    /\ UNCHANGED <<scrape, main>>

\* mutant: every ledger row is taken for a flagged one
to_revert_all(summary) == DOMAIN summary

\* summary[summary['reject'] == '1']
to_revert(summary) == {j \in DOMAIN summary : summary[j].reject = "1"}

\* mutant: the value the run wrote is put back instead of the one it replaced
RECURSIVE apply_reverts_new(_, _, _)
apply_reverts_new(t, summary, i) ==
    IF i > Len(summary) THEN t
    ELSE apply_reverts_new(
            IF summary[i].reject = "1"
            THEN [t EXCEPT ![summary[i].row_index + 1][summary[i].column] =
                               summary[i].new_value]
            ELSE t,
            summary, i + 1)

RECURSIVE apply_reverts(_, _, _)
apply_reverts(t, summary, i) ==
    IF i > Len(summary) THEN t
    ELSE apply_reverts(
            IF i \in to_revert(summary)
            THEN [t EXCEPT ![summary[i].row_index + 1][summary[i].column] =
                               summary[i].old_value]
            ELSE t,
            summary, i + 1)

NoFlagged == "No flagged overwrites to revert."
Reverted == "Reverted cells. Written corrected file"

\* revert_overwrites(summary_csv, enriched_csv): the table is read and written only
\* when the ledger has a flagged row
Revert ==
    /\ pc \in Stopped
    /\ summary_exists
    /\ IF to_revert(summary_csv) = {}
       THEN /\ stdout' = NoFlagged
            /\ UNCHANGED players_csv
       ELSE /\ players_csv' = apply_reverts(players_csv, summary_csv, 1)
            /\ stdout' = Reverted
    /\ UNCHANGED <<summary_exists, summary_csv, ranks, pc, cfg, prev_rejects, df,
                   end_index, pos, changes, new_data, rejected>>
    /\ UNCHANGED <<scrape, main>>

-----------------------------------------------------------------------------
(* The Player Store and the merge stage (rankings_to_player_base.py)         *)
(*                                                                         *)
(* A frame is [columns, rows]: the column labels in their order and the    *)
(* rows, each a record over the labels.  A date of the ranking calendar is *)
(* the number of its week; NoDate is an empty date field (NaT in memory).  *)
(* A player_id field of a file is a number or BadId, a text that no number *)
(* parser accepts ("abc", or nothing); in memory the latter is NaN.        *)

NoDate == 0
BadId == -1
NaN == -2

\* pd.to_numeric(x, errors='coerce')
to_numeric(x) == IF x = BadId THEN NaN ELSE x

\* the header of the store file
StoreColumns ==
    <<"full_name", "player_id", "best_rank", "first_appearance", "last_appearance",
      "represented_country", "birth_date", "birthplace", "plays", "height_inches",
      "height_cm">>

\* mutant: .dropna() takes the rows out of the table
load_players_dropping(csv) ==
    [columns |-> StoreColumns,
     rows |-> SelectSeq(
        [i \in DOMAIN csv |->
            [csv[i] EXCEPT !.player_id = to_numeric(@),
                           !.birth_date = IF ParsesAsDates(csv) THEN to_datetime(@)
                                          ELSE Str(@)]],
        LAMBDA r : r.player_id # NaN)]

\* the coerced ids, without the NaN, are assigned back to the column: the assignment
\* aligns them on the row index, so every row stays and a malformed id becomes NaN
load_players(csv) ==
    [columns |-> StoreColumns,
     rows |-> [i \in DOMAIN csv |->
        [csv[i] EXCEPT !.player_id = to_numeric(@),
                       !.birth_date = IF ParsesAsDates(csv) THEN to_datetime(@)
                                      ELSE Str(@)]]]

\* the weekly files, concatenated
load_rankings(files) ==
    [i \in DOMAIN files |-> [files[i] EXCEPT !.player_id = to_numeric(@)]]

\* set(frame['player_id'])
id_set(rows) == {rows[i].player_id : i \in DOMAIN rows}

\* mutant: the difference is taken the other way round
find_new_ids_swapped(existing, rankings) == id_set(existing.rows) \ id_set(rankings)

\* mutant: every ranked player counts as new
find_new_ids_all(existing, rankings) == id_set(rankings)

find_new_ids(existing, rankings) ==
    LET existing_ids == id_set(existing.rows)
        ranking_ids == id_set(rankings)
    IN ranking_ids \ existing_ids

Min(S) == CHOOSE x \in S : \A y \in S : x <= y

\* sorted(new_ids)
RECURSIVE sorted(_)
sorted(S) == IF S = {} THEN <<>> ELSE <<Min(S)>> \o sorted(S \ {Min(S)})

\* ranks_df[ranks_df['player_id'] == pid]
sub_of(ranks_df, pid) == SelectSeq(ranks_df, LAMBDA r : r.player_id = pid)

column_of(rows, c) == {rows[i][c] : i \in DOMAIN rows}

\* pd.DataFrame(new_rows, columns=columns): the listed columns, in the listed order
DataFrame(new_rows, columns) ==
    [columns |-> columns,
     rows |-> [i \in DOMAIN new_rows |->
        [c \in {columns[k] : k \in DOMAIN columns} |->
            IF c \in DOMAIN new_rows[i] THEN new_rows[i][c] ELSE ""]]]

new_row(sub, pid, best_rank) ==
    [player_id |-> pid,
     full_name |-> sub[1].full_name,
     birth_date |-> NaT,
     birthplace |-> "",
     plays |-> "",
     height_inches |-> "",
     height_cm |-> "",
     represented_country |-> "",
     best_rank |-> best_rank,
     first_appearance |-> Min(column_of(sub, "date")),
     last_appearance |-> Max(column_of(sub, "date"))]

\* mutant: the rank of the latest observation is taken for the best one
summarize_new_players_latest(ranks_df, new_ids, columns) ==
    LET pids == sorted(new_ids)
    IN DataFrame([i \in DOMAIN pids |->
                    LET sub == sub_of(ranks_df, pids[i])
                    IN new_row(sub, pids[i], sub[Len(sub)].ranking)],
                 columns)

summarize_new_players(ranks_df, new_ids, columns) ==
    LET pids == sorted(new_ids)
    IN DataFrame([i \in DOMAIN pids |->
                    LET sub == sub_of(ranks_df, pids[i])
                    IN new_row(sub, pids[i], Min(column_of(sub, "ranking")))],
                 columns)

\* mutant: the new rows are put before the existing ones
concat_front(a, b) == [columns |-> a.columns, rows |-> b.rows \o a.rows]

\* pd.concat([players_df, new_players_df], ignore_index=True)
concat(a, b) == [columns |-> a.columns, rows |-> a.rows \o b.rows]

\* ranks_df.groupby('player_id')['date'].max(), left-merged on player_id
new_last(ranks_df, pid) ==
    IF pid \in id_set(ranks_df) /\ pid # NaN
    THEN Max(column_of(sub_of(ranks_df, pid), "date"))
    ELSE NoDate

\* mutant: the date of the batch is taken whenever the player was observed
update_last_appearances_always(players, ranks_df) ==
    [players EXCEPT !.rows =
        [i \in DOMAIN players.rows |->
            LET nl == new_last(ranks_df, players.rows[i].player_id)
            IN IF nl # NoDate
               THEN [players.rows[i] EXCEPT !.last_appearance = nl]
               ELSE players.rows[i]]]

\* mutant: the best rank and the first date are refreshed from the batch as well
update_last_appearances_refresh(players, ranks_df) ==
    [players EXCEPT !.rows =
        [i \in DOMAIN players.rows |->
            LET sub == sub_of(ranks_df, players.rows[i].player_id)
                nl == new_last(ranks_df, players.rows[i].player_id)
                last == players.rows[i].last_appearance
            IN IF sub = <<>> THEN players.rows[i]
               ELSE [players.rows[i] EXCEPT
                        !.last_appearance =
                            IF nl # NoDate /\ last # NoDate /\ nl > last THEN nl ELSE @,
                        !.best_rank = Min(column_of(sub, "ranking") \cup {@}),
                        !.first_appearance = Min(column_of(sub, "date") \cup {@})]]]

\* a comparison with NaT is False: an unknown last_appearance stays unknown
update_last_appearances(players, ranks_df) ==
    [players EXCEPT !.rows =
        [i \in DOMAIN players.rows |->
            LET nl == new_last(ranks_df, players.rows[i].player_id)
                last == players.rows[i].last_appearance
                mask == nl # NoDate /\ last # NoDate /\ nl > last
            IN IF mask
               THEN [players.rows[i] EXCEPT !.last_appearance = nl]
               ELSE players.rows[i]]]

\* df.to_csv(output_path, index=False): NaN and NaT are written as empty fields
save_players(d) ==
    [i \in DOMAIN d.rows |->
        [d.rows[i] EXCEPT !.player_id = IF @ = NaN THEN BadId ELSE @,
                          !.birth_date = @.v]]

\* main.py, the merge stage, as a function of the store and the ranking files
merge_stage(csv, files) ==
    LET players_df == load_players(csv)
        ranks_df == load_rankings(files)
        new_ids == find_new_ids(players_df, ranks_df)
        with_new == IF new_ids # {}
                    THEN concat(players_df,
                                summarize_new_players(ranks_df, new_ids, players_df.columns))
                    ELSE players_df
    IN save_players(update_last_appearances(with_new, ranks_df))

-----------------------------------------------------------------------------
(* The merge stage as a state machine over the store file and the ranking  *)
(* files: weekly snapshots arrive, and main.py merges them into the store. *)

Pool == {1001, 1002, 1003}

name_of(pid) == CASE pid = 1001 -> "A" [] pid = 1002 -> "B" [] OTHER -> "C"

\* a ranking observation as scrape_data writes it
Obs(pid, d, r) == [full_name |-> name_of(pid), player_id |-> pid, ranking |-> r, date |-> d]

\* the snapshots a week can bring: one or two ranked players
WeekFiles(d) ==
    {<<Obs(p1, d, r)>> : p1 \in Pool, r \in 1..2}
    \cup {<<Obs(pq[1], d, 1), Obs(pq[2], d, 2)>> :
            pq \in {x \in Pool \X Pool : x[1] # x[2]}}

StoreRow(pid, name, best, first, last, cells) ==
    [player_id |-> pid, full_name |-> name, best_rank |-> best,
     first_appearance |-> first, last_appearance |-> last,
     represented_country |-> "", birth_date |-> cells.birth_date,
     birthplace |-> cells.birthplace, plays |-> cells.plays,
     height_inches |-> cells.height_inches, height_cm |-> cells.height_cm]

\* stores the merge stage can find: empty, one known player with known or unknown
\* dates, and one with a hand-made row whose player_id is not a number
InitStores ==
    {<<>>}
    \cup {<<StoreRow(1001, "A", 3, fl[1], fl[2], RowPartial)>> :
            fl \in {<<1, 1>>, <<2, 2>>, <<1, NoDate>>}}
    \cup {<<StoreRow(1001, "A", 3, 1, 1, RowPartial),
            StoreRow(BadId, "X", 9, 1, 1, RowEmpty)>>}

AddedPlayers == "Added new players."
NoNewPlayers == "No new players to add."

InitMerge ==
    /\ players_csv \in InitStores
    /\ ranks = <<>>
    /\ summary_exists = FALSE
    /\ summary_csv = <<>>
    /\ pc = "idle"
    /\ cfg = [start_index |-> 0, end_index |-> <<>>, overwrite |-> FALSE,
              min_first_date |-> <<>>]
    /\ prev_rejects = {}
    /\ df = <<>>
    /\ end_index = 0
    /\ pos = 0
    /\ changes = <<>>
    /\ stdout = ""
    /\ new_data = NoData
    /\ rejected = {}
    /\ scrape = NotScraping
    /\ main = NotMain

\* scrape_data saved the snapshot of one more week
ScrapeWeek ==
    /\ pc \in Stopped
    /\ LET d == IF ranks = <<>> THEN 1 ELSE Max(column_of(ranks, "date")) + 1
       IN /\ d <= MaxWeeks
          /\ \E f \in WeekFiles(d) : ranks' = ranks \o f
    /\ UNCHANGED <<players_csv, summary_exists, summary_csv, pc, cfg, prev_rejects, df,
                   end_index, pos, changes, stdout, new_data, rejected>>
    /\ UNCHANGED <<scrape, main>>

\* main.py lines 40-57; without a ranking file pd.concat raises before any write
MergeStage ==
    /\ pc \in Stopped
    /\ ranks # <<>>
    /\ players_csv' = merge_stage(players_csv, ranks)
    /\ stdout' = IF find_new_ids(load_players(players_csv), load_rankings(ranks)) # {}
                 THEN AddedPlayers ELSE NoNewPlayers
    /\ UNCHANGED <<summary_exists, summary_csv, ranks, pc, cfg, prev_rejects, df,
                   end_index, pos, changes, new_data, rejected>>
    /\ UNCHANGED <<scrape, main>>

NextMerge ==
    \/ ScrapeWeek
    \/ MergeStage

SpecMerge == InitMerge /\ [][NextMerge]_vars

-----------------------------------------------------------------------------
(* The IOC enrichment (add_ioc_to_player.py) and a run of main.py           *)

Raised == "<raised>"

\* what a lookup gives: a code, None when the page has no code, or an exception
WtaLookups == {"GBR", None, Raised}
TedLookups == {"FRA", None, Raised}
Lookups == [wta : WtaLookups, ted : TedLookups]

\* try: code = get_country_code_...(); except Exception: code stays None
lookup(o) == IF o = Raised THEN None ELSE o

\* the code appended for one row; an empty player_id field reads as <NA>
ioc_code(row, overwrite, o) ==
    LET current == row.represented_country
        wta == lookup(o.wta)
    IN IF current # "" /\ ~overwrite THEN current
       ELSE IF row.player_id = BadId THEN None
       ELSE IF wta = None THEN lookup(o.ted)
       ELSE wta

\* enrich_country_codes: the codes of rows start_index..end_index-1 are assigned
\* back over the slice and the table is written; None is written as an empty field
enrich_country_codes(csv, start_index, end_arg, overwrite, outcomes) ==
    LET n == Len(csv)
        e == IF end_arg = <<>> \/ end_arg[1] > n THEN n ELSE end_arg[1]
        codes == [idx \in start_index..(e - 1) |->
                    ioc_code(csv[idx + 1], overwrite, outcomes[idx])]
    IN [codes |-> codes,
        output_csv |->
            [i \in DOMAIN csv |->
                IF i - 1 \in DOMAIN codes
                THEN [csv[i] EXCEPT !.represented_country =
                        IF codes[i - 1] = None THEN "" ELSE codes[i - 1]]
                ELSE csv[i]]]

\* main.py starts its merge stage: a store of one known player, with or without a
\* country code, and the ranking file of a later week with a second player
InitMain ==
    /\ \E c \in {"", "USA"} :
        players_csv = <<[StoreRow(1001, "A", 3, 1, 1, RowPartial)
                            EXCEPT !.represented_country = c]>>
    /\ ranks = <<Obs(1001, 2, 1), Obs(1002, 2, 2)>>
    /\ summary_exists = FALSE
    /\ summary_csv = <<>>
    /\ pc = "idle"
    /\ cfg \in [start_index : {0}, end_index : {<<>>}, overwrite : BOOLEAN,
                min_first_date : {<<>>}]
    /\ prev_rejects = {}
    /\ df = <<>>
    /\ end_index = 0
    /\ pos = 0
    /\ changes = <<>>
    /\ stdout = ""
    /\ new_data = NoData
    /\ rejected = {}
    /\ scrape = NotScraping
    /\ \E same \in BOOLEAN, over \in BOOLEAN :
        main = [NotMain EXCEPT !.stage = "merge", !.same_path = same,
                               !.overwrite_ioc = over]

\* the table at output_path
output_file == IF main.same_path THEN players_csv ELSE main.output_csv

MainUnchanged ==
    UNCHANGED <<ranks, pc, cfg, prev_rejects, df, end_index, pos, changes, new_data,
                rejected, scrape>>

\* main.py lines 40-57: the store is loaded from players_path and saved to
\* output_path
MainMerge ==
    /\ main.stage = "merge"
    /\ LET t == merge_stage(players_csv, ranks)
       IN /\ players_csv' = IF main.same_path THEN t ELSE players_csv
          /\ main' = [main EXCEPT !.stage = "wiki",
                                  !.output_csv = IF main.same_path THEN @ ELSE t,
                                  !.merged = t]
    /\ stdout' = IF find_new_ids(load_players(players_csv), load_rankings(ranks)) # {}
                 THEN AddedPlayers ELSE NoNewPlayers
    /\ UNCHANGED <<summary_exists, summary_csv>>
    /\ MainUnchanged

\* main.py lines 64-80: enrich_csv reads players_path and writes output_path; an
\* exception that leaves enrich_csv ends main.py
MainWiki ==
    /\ main.stage = "wiki"
    /\ \E resps \in [0..(Len(players_csv) - 1) -> Responses] :
        LET r == enrich_csv(players_csv, summary_exists, summary_csv, ranks, cfg, resps)
        IN IF r.exc # ""
           THEN /\ main' = [main EXCEPT !.stage = "aborted"]
                /\ stdout' = r.exc
                /\ UNCHANGED <<players_csv, summary_exists, summary_csv>>
           ELSE /\ players_csv' = IF main.same_path THEN r.players_csv ELSE players_csv
                /\ main' = [main EXCEPT
                                !.stage = "ioc",
                                !.output_csv = IF main.same_path THEN @
                                               ELSE r.players_csv,
                                !.accepted = r.changes]
                /\ summary_exists' = r.summary_exists
                /\ summary_csv' = r.summary_csv
                /\ stdout' = IF r.changes # <<>> THEN LogWritten ELSE NoNewOverwrites
    /\ MainUnchanged

IocDone == "Done. Wrote enriched file"

\* main.py lines 90-98: enrich_country_codes reads players_path and writes
\* output_path
MainIoc ==
    /\ main.stage = "ioc"
    /\ \E outcomes \in [0..(Len(players_csv) - 1) -> Lookups] :
        LET r == enrich_country_codes(players_csv, 0, <<>>, main.overwrite_ioc, outcomes)
        IN /\ players_csv' = IF main.same_path THEN r.output_csv ELSE players_csv
           /\ main' = [main EXCEPT
                           !.stage = "done",
                           !.output_csv = IF main.same_path THEN @ ELSE r.output_csv,
                           !.codes = r.codes]
    /\ stdout' = IocDone
    /\ UNCHANGED <<summary_exists, summary_csv>>
    /\ MainUnchanged

NextMain ==
    \/ MainMerge
    \/ MainWiki
    \/ MainIoc

SpecMain == InitMain /\ [][NextMain]_vars

-----------------------------------------------------------------------------
(* The store under every tool that writes it: merge stage, enrichment runs  *)
(* with overwrite, the reviewer and the Revert Tool, in any order.          *)

InitPipeline ==
    /\ players_csv \in {<<StoreRow(1001, "A", 3, 1, 1, RowPartial)>>,
                        <<StoreRow(BadId, "X", 9, 1, 1, RowEmpty),
                          StoreRow(1001, "A", 3, 1, 1, RowPartial)>>}
    /\ ranks = <<Obs(1001, 1, 1), Obs(1002, 1, 2)>>
    /\ summary_exists = FALSE
    /\ summary_csv = <<>>
    /\ pc = "idle"
    /\ cfg = [start_index |-> 0, end_index |-> <<>>, overwrite |-> TRUE,
              min_first_date |-> <<>>]
    /\ prev_rejects = {}
    /\ df = <<>>
    /\ end_index = 0
    /\ pos = 0
    /\ changes = <<>>
    /\ stdout = ""
    /\ new_data = NoData
    /\ rejected = {}
    /\ scrape = NotScraping
    /\ main = NotMain

-----------------------------------------------------------------------------
(* The ranking scraper (scrape_player_ranking_wta.py).  A step is one HTTP *)
(* request together with everything scrape_data does until the next one.   *)
(* scrape.tries is the number of requests already issued for the current   *)
(* URL, scrape.temp_data the length of temp_data, which is kept up to the  *)
(* row count that decides the attempt.                                     *)

retries == 5
max_retries == 7
max_page == 72
page_size == 20
min_rows == 350

\* the dates scrape_data is given: 1..MaxDates
InitScrapeState == [NotScraping EXCEPT !.pc = "fetch", !.date = 1]

\* the next date, or the end of the list
next_date(sc) ==
    IF sc.date < MaxDates
    THEN [sc EXCEPT !.date = @ + 1, !.attempt = 0, !.page = 0, !.temp_data = 0,
                    !.tries = 0]
    ELSE [sc EXCEPT !.pc = "done", !.attempt = 0, !.page = 0, !.temp_data = 0,
                    !.tries = 0]

\* after the page loop: enough rows end the date, else the next attempt or giving up
end_attempt(sc) ==
    IF sc.temp_data >= min_rows
    THEN next_date([sc EXCEPT !.saved = @ \cup {sc.date}])
    ELSE IF sc.attempt + 1 < max_retries
    THEN [sc EXCEPT !.attempt = @ + 1, !.page = 0, !.temp_data = 0, !.tries = 0]
    ELSE next_date([sc EXCEPT !.failed = @ \cup {sc.date}])

\* a page of data was returned: rows are added, then the next page or the end
add_page(sc, rows) ==
    LET n == IF sc.temp_data + rows >= min_rows THEN min_rows ELSE sc.temp_data + rows
        grown == [sc EXCEPT !.temp_data = n, !.page = @ + 1, !.tries = 0]
    IN IF grown.page < max_page THEN grown ELSE end_attempt(grown)

\* mutant: the loop runs once more than the ceiling
in_range_more(t) == t <= retries

\* for attempt in range(retries): whether another request follows request number t
in_range(t) == t < retries

\* status 429: sleep, delay *= 2, continue; after the last try the loop ends and
\* the function returns None, which ends the page loop
fetch_429(sc) ==
    IF in_range(sc.tries + 1) THEN [sc EXCEPT !.tries = @ + 1]
    ELSE end_attempt(sc)

\* an exception of requests.get, raise_for_status or response.json(): None on the
\* last try, else sleep and the next try
fetch_raised(sc) ==
    IF sc.tries = retries - 1 \/ ~in_range(sc.tries + 1) THEN end_attempt(sc)
    ELSE [sc EXCEPT !.tries = @ + 1]

\* kinds of body a 200 response carries
Bodies == {"page", "no_player", "empty", "not_rows"}

\* status 429: sleep, double the delay, continue
Request429 ==
    /\ scrape.pc = "fetch"
    /\ scrape' = fetch_429(scrape)

\* requests.get, raise_for_status or response.json() raises: caught in the fetch
RequestError ==
    /\ scrape.pc = "fetch"
    /\ scrape' = fetch_raised(scrape)

\* the request returns JSON
RequestData ==
    /\ scrape.pc = "fetch"
    /\ \E body \in Bodies :
        scrape' =
            CASE body = "page" -> add_page(scrape, page_size)
              [] body = "no_player" -> add_page(scrape, 0)
              [] body = "empty" -> end_attempt(scrape)
              [] OTHER -> [scrape EXCEPT !.pc = "crashed"]

ScrapeUnchanged ==
    UNCHANGED <<players_csv, summary_exists, summary_csv, ranks, pc, cfg, prev_rejects,
                df, end_index, pos, changes, stdout, new_data, rejected, main>>

InitScrape ==
    /\ players_csv = <<>>
    /\ ranks = <<>>
    /\ summary_exists = FALSE
    /\ summary_csv = <<>>
    /\ pc = "idle"
    /\ cfg = [start_index |-> 0, end_index |-> <<>>, overwrite |-> FALSE,
              min_first_date |-> <<>>]
    /\ prev_rejects = {}
    /\ df = <<>>
    /\ end_index = 0
    /\ pos = 0
    /\ changes = <<>>
    /\ stdout = ""
    /\ new_data = NoData
    /\ rejected = {}
    /\ scrape = InitScrapeState
    /\ main = NotMain

NextScrape ==
    \/ (Request429 /\ ScrapeUnchanged)
    \/ (RequestError /\ ScrapeUnchanged)
    \/ (RequestData /\ ScrapeUnchanged)

\* every request gets an answer or an exception (requests without timeout aside)
SpecScrape == InitScrape /\ [][NextScrape]_vars /\ WF_vars(NextScrape)

-----------------------------------------------------------------------------
(* Vocabulary of the properties *)

Cols == {target_cols[k] : k \in 1..Len(target_cols)}

\* the last iteration scraped a page and applied its candidates
Scraped == pc = "loop" /\ stdout = "OK"

\* row index of the player of the last iteration
last_idx == active_idxs(df, ranks)[pos]

\* during the loop the file still holds the table as it was before the run
cell_before(i, col) == players_csv[i + 1][col]
cell_now(i, col) == to_csv(df)[i + 1][col]
logged(i, col) ==
    \E j \in DOMAIN changes : changes[j].row_index = i /\ changes[j].column = col

Rows == {i - 1 : i \in DOMAIN df}

PageResponses == {[kind |-> "page", info |-> i] : i \in Infos}

-----------------------------------------------------------------------------
(* Properties *)

\* C1: once a reviewer has flagged (player_id, column), no later run collects a
\* Change Record for that pair, and every ledger row of the pair carries reject = "1".
C1_RejectPersistence ==
    /\ \A j \in DOMAIN changes :
        <<changes[j].player_id, changes[j].column>> \notin rejected
    /\ \A j \in DOMAIN summary_csv :
        <<summary_csv[j].player_id, summary_csv[j].column>> \in rejected
            => summary_csv[j].reject = "1"

\* C2: within a run, a cell whose (player_id, column) is in prev_rejects keeps the
\* value it was loaded with and no Change Record is collected for it.
C2_PrevRejectsUntouched ==
    pc = "loop" =>
        \A p \in prev_rejects : \A i \in Rows :
            df[i + 1].player_id = p[1] =>
                /\ df[i + 1][p[2]] = read_csv(players_csv)[i + 1][p[2]]
                /\ ~logged(i, p[2])

\* a scraped player has a previously rejected cell that is empty while the page
\* offers a value for it
C2_Witness ==
    /\ Scraped
    /\ \E p \in prev_rejects :
        /\ df[last_idx + 1].player_id = p[1]
        /\ df[last_idx + 1][p[2]] = Str("")
        /\ new_data[p[2]] # ""

\* C3: a cell that is non-empty in the table before the run is non-empty in the
\* table the run holds (and writes), for every player and target column.
C3_NonRegression ==
    pc = "loop" =>
        \A i \in Rows : \A col \in Cols :
            cell_before(i, col) # "" => cell_now(i, col) # ""

\* an overwriting run met an empty candidate for a non-empty cell
C3_Witness ==
    /\ Scraped
    /\ cfg.overwrite
    /\ cfg.min_first_date = <<>>
    /\ \E col \in Cols : cell_before(last_idx, col) # "" /\ new_data[col] = ""

\* C4: a second run with the source data and settings of the first collects no
\* Change Record and leaves the table as the first run wrote it.
C4_Idempotence ==
    pc = "idle" =>
        \A resps \in [0..1 -> PageResponses] :
            LET r1 == enrich_csv(players_csv, summary_exists, summary_csv, ranks, cfg, resps)
                r2 == enrich_csv(r1.players_csv, r1.summary_exists, r1.summary_csv,
                                 ranks, cfg, resps)
            IN r2.changes = <<>> /\ r2.players_csv = r1.players_csv

\* C5: an empty cell whose candidate is non-empty and whose pair is not in
\* prev_rejects receives the candidate, with a Change Record (old empty, new candidate).
C5_EmptyFieldsFillable ==
    Scraped =>
        \A col \in Cols :
            (/\ cell_before(last_idx, col) = ""
             /\ new_data[col] # ""
             /\ <<df[last_idx + 1].player_id, col>> \notin prev_rejects)
            => /\ cell_now(last_idx, col) = new_data[col]
               /\ \E j \in DOMAIN changes :
                    /\ changes[j].row_index = last_idx
                    /\ changes[j].column = col
                    /\ changes[j].old_value.v = ""
                    /\ changes[j].new_value = new_data[col]

\* C6: with overwrite false, a non-empty cell whose candidate is non-empty and
\* different keeps its value and gets no Change Record.
C6_OverwriteGate ==
    (Scraped /\ ~cfg.overwrite) =>
        \A col \in Cols :
            (cell_before(last_idx, col) # "" /\ new_data[col] \notin {"", cell_before(last_idx, col)})
            => /\ cell_now(last_idx, col) = cell_before(last_idx, col)
               /\ ~logged(last_idx, col)

C6_Witness ==
    /\ Scraped
    /\ ~cfg.overwrite
    /\ \E col \in Cols :
        cell_before(last_idx, col) # "" /\ new_data[col] \notin {"", cell_before(last_idx, col)}

\* C7: a non-empty cell has another value after the player was processed only if
\* overwrite is true and, when min_first_date is set, first_appearance is later.
C7_RecencyGate ==
    pc = "loop" =>
        \A i \in Rows : \A col \in Cols :
            (cell_before(i, col) # "" /\ cell_now(i, col) # cell_before(i, col))
            => /\ cfg.overwrite
               /\ (cfg.min_first_date = <<>>
                   \/ df[i + 1].first_appearance > cfg.min_first_date[1])

\* under a configured threshold one player had a cell replaced, and the player whose
\* first appearance is the threshold date kept a cell against a different candidate
C7_Witness ==
    /\ Scraped
    /\ cfg.min_first_date # <<>>
    /\ \E i \in Rows : \E col \in Cols :
        cell_before(i, col) # "" /\ cell_now(i, col) # cell_before(i, col)
    /\ df[last_idx + 1].first_appearance = cfg.min_first_date[1]
    /\ \E col \in Cols :
        /\ cell_before(last_idx, col) # ""
        /\ new_data[col] \notin {"", cell_before(last_idx, col)}
        /\ cell_now(last_idx, col) = cell_before(last_idx, col)

\* C8: the Change Records of the run are exactly the cells that differ between the
\* table before and the table the run holds; a record has the old and the new value
\* of its cell, the new one non-empty and different from the old one.
C8_LedgerExact ==
    pc = "loop" =>
        /\ \A j \in DOMAIN changes :
            /\ changes[j].old_value.v = cell_before(changes[j].row_index, changes[j].column)
            /\ changes[j].new_value = cell_now(changes[j].row_index, changes[j].column)
            /\ changes[j].new_value # ""
            /\ changes[j].new_value # changes[j].old_value.v
        /\ \A i \in Rows : \A col \in Cols :
            cell_now(i, col) # cell_before(i, col) => logged(i, col)

\* C9: a network error, a missing page or a missing infobox never ends the run;
\* the player keeps every cell, gets no Change Record, and the loop goes on.
C9_FetchFailureSkipsPlayer ==
    /\ pc = "aborted" => stdout \notin {"RuntimeError", "FileNotFoundError", "ValueError"}
    /\ (pc = "loop" /\ stdout \in {"SKIP RuntimeError", "SKIP FileNotFoundError",
                                   "SKIP ValueError"})
        => /\ df[last_idx + 1] = read_csv(players_csv)[last_idx + 1]
           /\ \A j \in DOMAIN changes : changes[j].row_index # last_idx

\* the fetch of the first player failed and the second player is next
C9_Witness ==
    /\ pc = "loop"
    /\ stdout = "SKIP ValueError"
    /\ pos = 1
    /\ pos < end_index

\* C10: whatever a fetch returns, the run reaches the writes.
C10_BatchNeverAborts == pc # "aborted"

\* C11: a step of the Revert Tool leaves, for every ledger row with reject = "1",
\* the old_value of the row in the table cell (row_index, column), whatever the
\* cell held before.
C11_RevertCorrectness ==
    [][Revert =>
        \A j \in DOMAIN summary_csv :
            summary_csv[j].reject = "1" =>
                players_csv'[summary_csv[j].row_index + 1][summary_csv[j].column]
                    = summary_csv[j].old_value]_vars

\* the Revert Tool has put back the value of a flagged cell the run had changed
C11_Witness ==
    /\ stdout = Reverted
    /\ \E j \in DOMAIN summary_csv :
        /\ summary_csv[j].reject = "1"
        /\ summary_csv[j].new_value # summary_csv[j].old_value
        /\ players_csv[summary_csv[j].row_index + 1][summary_csv[j].column]
                = summary_csv[j].old_value

\* C12: a step of the Revert Tool on a ledger without a flagged row writes no
\* table: the table file is as before and the tool reports that nothing is flagged.
C12_RevertNoop ==
    [][(Revert /\ \A j \in DOMAIN summary_csv : summary_csv[j].reject # "1")
        => (players_csv' = players_csv /\ stdout' = NoFlagged)]_vars

\* the Revert Tool ran on a ledger that has rows, none of them flagged
C12_Witness ==
    /\ stdout = NoFlagged
    /\ summary_csv # <<>>
    /\ \A j \in DOMAIN summary_csv : summary_csv[j].reject # "1"

\* a step of an enrichment run (the reviewer and the Revert Tool act between runs)
RunStep == pc' # pc \/ pc = "loop"

\* the ledger rows are the Change Records ch, one row per record and in their order
SameRecords(ledger, ch) ==
    /\ Len(ledger) = Len(ch)
    /\ \A j \in DOMAIN ch :
        /\ ledger[j].player_id = ch[j].player_id
        /\ ledger[j].column = ch[j].column
        /\ ledger[j].row_index = ch[j].row_index
        /\ ledger[j].old_value = ch[j].old_value.v
        /\ ledger[j].new_value = ch[j].new_value

\* C13 as stated: the end of every run leaves in the ledger exactly the Change Records
\* the run collected, also when it collected none.
C13_LedgerOverwrittenEveryRun ==
    [][(pc = "write_summary" /\ pc' = "idle") => SameRecords(summary_csv', changes)]_vars

\* C13 amended: a run replaces the ledger only at its end and only when it collected
\* a Change Record, and the ledger then holds exactly the records of that run; every
\* other step of a run (a stop included), and the end of a run without a record,
\* leaves the ledger as it was.
C13_LedgerOverwrittenOnChange ==
    [][RunStep =>
        IF pc = "write_summary" /\ pc' = "idle" /\ changes # <<>>
        THEN summary_exists' /\ SameRecords(summary_csv', changes)
        ELSE summary_csv' = summary_csv /\ summary_exists' = summary_exists]_vars

\* a run that collected no Change Record has ended and the ledger still holds the
\* records of an earlier run
C13_Witness ==
    /\ pc = "idle"
    /\ stdout = NoNewOverwrites
    /\ summary_exists
    /\ summary_csv # <<>>

\* C19: a run writes the table only once the batch loop is over, and what it writes
\* is the whole in-memory table; every other step of a run, the one that aborts it
\* or kills it included, leaves the table file as it was before the run.
C19_TableWrittenAtEnd ==
    [][(RunStep /\ players_csv' # players_csv) =>
        /\ \/ (pc = "loop" /\ pos >= end_index /\ pc' = "write_summary")
           \/ (pc = "write_summary" /\ pc' = "idle")
        /\ players_csv' = to_csv(df)]_vars

\* the run has accepted changes the table file does not have, and players are left
\* whose fetch can abort the run
C19_Witness ==
    /\ pc = "loop"
    /\ changes # <<>>
    /\ pos < end_index
    /\ to_csv(df) # players_csv

\* the frames the merge stage works on in the current state
P_now == load_players(players_csv)
R_now == load_rankings(ranks)
N_now == find_new_ids(P_now, R_now)

Reverse(q) == [i \in DOMAIN q |-> q[Len(q) + 1 - i]]

observed(rk, id) == \E i \in DOMAIN rk : rk[i].player_id = id
stored(rows, id) == \E i \in DOMAIN rows : rows[i].player_id = id

\* C14: find_new_ids returns exactly the ids that occur in the ranking observations
\* and not in the store, whatever the order and the multiplicity of the rows; no id
\* of the store is in the result.
C14_FindNewIds ==
    /\ \A id \in Pool \cup {NaN} :
        id \in N_now <=> (observed(R_now, id) /\ ~stored(P_now.rows, id))
    /\ N_now \subseteq Pool
    /\ \A i \in DOMAIN P_now.rows : P_now.rows[i].player_id \notin N_now
    /\ find_new_ids([P_now EXCEPT !.rows = Reverse(@) \o @], Reverse(R_now) \o R_now)
        = N_now

\* the rankings name a player the store has and a player it has not
C14_Witness ==
    /\ N_now # {}
    /\ \E id \in Pool : observed(R_now, id) /\ stored(P_now.rows, id)
    /\ Len(R_now) >= 3

\* C15: update_last_appearances keeps every row and never moves last_appearance
\* back: a known date stays known and does not decrease; the date changes only to
\* the latest observation date of the player and only when that is strictly later;
\* a player without observation keeps the row.
C15_LastAppearanceMonotone ==
    LET U == update_last_appearances(P_now, R_now)
    IN /\ Len(U.rows) = Len(P_now.rows)
       /\ \A i \in DOMAIN P_now.rows :
            LET old == P_now.rows[i]
                new == U.rows[i]
                dates == {R_now[j].date : j \in {k \in DOMAIN R_now :
                                                    R_now[k].player_id = old.player_id}}
            IN /\ old.last_appearance # NoDate =>
                    (new.last_appearance # NoDate
                     /\ new.last_appearance >= old.last_appearance)
               /\ new.last_appearance # old.last_appearance =>
                    /\ dates # {}
                    /\ new.last_appearance \in dates
                    /\ \A d \in dates : d <= new.last_appearance
                    /\ new.last_appearance > old.last_appearance
               /\ dates = {} => new = old

\* one player of the store was observed later than the stored date, another one was
\* observed but not later
C15_Witness ==
    /\ \E i \in DOMAIN P_now.rows :
        /\ P_now.rows[i].last_appearance # NoDate
        /\ new_last(R_now, P_now.rows[i].player_id) > P_now.rows[i].last_appearance
    /\ \E i \in DOMAIN P_now.rows :
        /\ new_last(R_now, P_now.rows[i].player_id) # NoDate
        /\ new_last(R_now, P_now.rows[i].player_id) <= P_now.rows[i].last_appearance

\* C16: summarize_new_players builds one record per new id, with the minimum
\* ranking, the minimum date and the maximum date of the observations of the id, the
\* enrichable fields empty, and the columns of the store in their order.
C16_SummarizeNewPlayers ==
    LET S == summarize_new_players(R_now, N_now, P_now.columns)
    IN /\ S.columns = P_now.columns
       /\ Len(S.rows) = Cardinality(N_now)
       /\ \A id \in N_now :
            \E i \in DOMAIN S.rows :
                LET row == S.rows[i]
                    obs == {R_now[j] : j \in {k \in DOMAIN R_now : R_now[k].player_id = id}}
                IN /\ DOMAIN row = {S.columns[k] : k \in DOMAIN S.columns}
                   /\ row.player_id = id
                   /\ \E o \in obs : o.ranking = row.best_rank
                   /\ \A o \in obs : row.best_rank <= o.ranking
                   /\ \E o \in obs : o.date = row.first_appearance
                   /\ \A o \in obs : row.first_appearance <= o.date
                   /\ \E o \in obs : o.date = row.last_appearance
                   /\ \A o \in obs : o.date <= row.last_appearance
                   /\ row.birth_date = NaT
                   /\ \A c \in {"birthplace", "plays", "height_inches", "height_cm",
                                "represented_country"} : row[c] = ""

\* a new player was observed in two weeks, the second time at a worse rank
C16_Witness ==
    \E id \in N_now : \E i, j \in DOMAIN R_now :
        /\ R_now[i].player_id = id
        /\ R_now[j].player_id = id
        /\ R_now[i].date < R_now[j].date
        /\ R_now[i].ranking < R_now[j].ranking

\* C17: in the store file player_id is unique, and first_appearance is not later
\* than last_appearance for every player that has both.
C17_StoreInvariant ==
    /\ \A i, j \in DOMAIN players_csv :
        players_csv[i].player_id = players_csv[j].player_id => i = j
    /\ \A i \in DOMAIN players_csv :
        (players_csv[i].first_appearance # NoDate /\ players_csv[i].last_appearance # NoDate)
            => players_csv[i].first_appearance <= players_csv[i].last_appearance

\* two merge-stage runs in a row: the first added players, the second found none,
\* and a stored date was moved
C17_Witness ==
    /\ stdout = NoNewPlayers
    /\ Len(players_csv) >= 3
    /\ \E i \in DOMAIN players_csv :
        players_csv[i].first_appearance # NoDate
        /\ players_csv[i].first_appearance < players_csv[i].last_appearance

\* C18: the loaded table has no row with a malformed or missing player_id: the rows
\* of the file whose player_id is not a number are dropped.
C18_LoadDropsMalformed ==
    /\ \A i \in DOMAIN P_now.rows : P_now.rows[i].player_id # NaN
    /\ Len(P_now.rows) = Cardinality({i \in DOMAIN players_csv :
                                        players_csv[i].player_id # BadId})

\* scrape_data is over: the list of dates is done, or an exception left it
ScrapeOver == scrape.pc \in {"done", "crashed"}

\* C20: a fetch issues at most 5 requests for one URL, a date gets at most 7
\* attempts, a date is left only for the next one, saved or logged as failed, and
\* scraping the list of dates comes to an end whatever the responses are.
C20_BoundedScrape ==
    /\ [](scrape.pc = "fetch" => (scrape.tries < 5 /\ scrape.attempt < 7))
    /\ [][scrape'.date # scrape.date =>
            /\ scrape'.date = scrape.date + 1
            /\ scrape.date \in scrape'.saved \cup scrape'.failed
            /\ scrape'.pc = "fetch"]_vars
    /\ <>ScrapeOver

\* the list of dates is done: the last date was given up after its seventh attempt
\* and logged as failed, an earlier date was saved
C20_Witness ==
    /\ scrape.pc = "done"
    /\ MaxDates \in scrape.failed
    /\ scrape.saved # {}

-----------------------------------------------------------------------------

\* the ledger row that records the Change Record ch
record_of(ch) ==
    [player_id |-> ch.player_id, player_name |-> ch.player_name, column |-> ch.column,
     row_index |-> ch.row_index, old_value |-> ch.old_value.v,
     new_value |-> ch.new_value]

in_ledger(exists, summary, ch) ==
    /\ exists
    /\ \E k \in DOMAIN summary :
        [f \in DOMAIN record_of(ch) |-> summary[k][f]] = record_of(ch)

\* C21: a ledger row flagged "1" whose old_value is not yet back in its cell stays in
\* the persisted ledger, with its flag and old_value, across every step of an
\* enrichment run, so that a later revert still finds it.
C21_RejectStaysRevertible ==
    [][RunStep =>
        \A j \in DOMAIN summary_csv :
            (/\ summary_csv[j].reject = "1"
             /\ players_csv[summary_csv[j].row_index + 1][summary_csv[j].column]
                    # summary_csv[j].old_value)
            => \E k \in DOMAIN summary_csv' : summary_csv'[k] = summary_csv[j]]_vars

\* C22: no Change Record collected by a run has its (player_id, column) in the
\* prev_rejects of that run, and every row of a ledger the run writes has an empty
\* reject flag.
C22_NoRecordForRejected ==
    /\ [](\A j \in DOMAIN changes :
            <<changes[j].player_id, changes[j].column>> \notin prev_rejects)
    /\ [][(pc = "write_summary" /\ pc' = "idle" /\ changes # <<>>) =>
            \A j \in DOMAIN summary_csv' : summary_csv'[j].reject = ""]_vars

\* the page of a scraped player offers a new value for a cell rejected before, and
\* the run has collected Change Records
C22_Witness ==
    /\ Scraped
    /\ changes # <<>>
    /\ \E p \in prev_rejects :
        /\ df[last_idx + 1].player_id = p[1]
        /\ new_data[p[2]] # ""
        /\ new_data[p[2]] # df[last_idx + 1][p[2]].v

\* C23 as stated: at every point of a run, an overwrite of the run that the
\* persisted table contains has its Change Record in the persisted ledger.
C23_TableLedgerConsistent ==
    pc \in {"loop", "write_summary"} =>
        \A j \in DOMAIN changes :
            (/\ changes[j].new_value # changes[j].old_value.v
             /\ players_csv[changes[j].row_index + 1][changes[j].column]
                    = changes[j].new_value)
            => in_ledger(summary_exists, summary_csv, changes[j])

\* C23: during the batch loop the persisted table contains no overwrite of the run,
\* and when the run ends with the ledger write, every overwrite of the run that the
\* persisted table contains has its Change Record in the persisted ledger.
C23_ConsistentAtEnd ==
    /\ [](pc = "loop" =>
            \A j \in DOMAIN changes :
                changes[j].new_value # changes[j].old_value.v
                => cell_before(changes[j].row_index, changes[j].column)
                       # changes[j].new_value)
    /\ [][(pc = "write_summary" /\ pc' = "idle") =>
            \A j \in DOMAIN changes :
                players_csv'[changes[j].row_index + 1][changes[j].column]
                    = changes[j].new_value
                => in_ledger(summary_exists', summary_csv', changes[j])]_vars

\* a run has ended with the ledger write, and the table holds a value the ledger
\* records as new and different from the old one
C23_Witness ==
    /\ pc = "idle"
    /\ stdout = LogWritten
    /\ Len(summary_csv) > 1
    /\ \E k \in DOMAIN summary_csv :
        /\ summary_csv[k].new_value # summary_csv[k].old_value
        /\ players_csv[summary_csv[k].row_index + 1][summary_csv[k].column]
               = summary_csv[k].new_value

\* C24: a revert leaves every cell that no flagged ledger row identifies by
\* (row_index, column) as it was, and keeps the rows of the table.
C24_RevertFrame ==
    [][Revert =>
        /\ DOMAIN players_csv' = DOMAIN players_csv
        /\ \A i \in DOMAIN players_csv : \A c \in DOMAIN players_csv[i] :
            (~\E j \in DOMAIN summary_csv :
                /\ summary_csv[j].reject = "1"
                /\ summary_csv[j].row_index = i - 1
                /\ summary_csv[j].column = c)
            => players_csv'[i][c] = players_csv[i][c]]_vars

\* a revert was applied while the ledger also had an unflagged row whose new value is
\* still in the table
C24_Witness ==
    /\ stdout = Reverted
    /\ \E j \in DOMAIN summary_csv : summary_csv[j].reject = "1"
    /\ \E j \in DOMAIN summary_csv :
        /\ summary_csv[j].reject = ""
        /\ summary_csv[j].new_value # summary_csv[j].old_value
        /\ players_csv[summary_csv[j].row_index + 1][summary_csv[j].column]
               = summary_csv[j].new_value

\* C26: the row_index of every Change Record, in the persisted ledger or collected
\* by the run in progress, is the index of the row of its player_id in the persisted
\* table.
C26_RowIndexStable ==
    /\ \A j \in DOMAIN summary_csv :
        /\ summary_csv[j].row_index + 1 \in DOMAIN players_csv
        /\ players_csv[summary_csv[j].row_index + 1].player_id = summary_csv[j].player_id
    /\ \A j \in DOMAIN changes :
        /\ changes[j].row_index + 1 \in DOMAIN players_csv
        /\ players_csv[changes[j].row_index + 1].player_id = changes[j].player_id

\* the merge stage has added a player to a table that a ledger with a flagged row
\* annotates
C26_Witness ==
    /\ stdout = AddedPlayers
    /\ \E j \in DOMAIN summary_csv : summary_csv[j].reject = "1"
    /\ \E i \in DOMAIN players_csv : players_csv[i].player_id = 1002

\* C27: when main.py has run its three stages, the table at output_path has the rows
\* and the last_appearance the merge stage wrote, the values the Wikipedia
\* enrichment accepted and the codes the IOC stage found, whether or not output_path
\* is players_path.
C27_NoLostUpdate ==
    main.stage = "done" =>
        /\ \A i \in DOMAIN main.merged :
            /\ i \in DOMAIN output_file
            /\ output_file[i].player_id = main.merged[i].player_id
            /\ output_file[i].last_appearance = main.merged[i].last_appearance
        /\ \A j \in DOMAIN main.accepted :
            /\ main.accepted[j].row_index + 1 \in DOMAIN output_file
            /\ output_file[main.accepted[j].row_index + 1][main.accepted[j].column]
                   = main.accepted[j].new_value
        /\ \A idx \in DOMAIN main.codes :
            main.codes[idx] # None =>
                output_file[idx + 1].represented_country = main.codes[idx]

\* C30: the IOC stage writes no blank represented_country where the table it read
\* has a code, with overwrite on or off and whatever the lookups give; with overwrite
\* off it writes every code it read unchanged.
C30_IocNonRegression ==
    [][MainIoc =>
        LET written == IF main.same_path THEN players_csv' ELSE main'.output_csv
        IN \A i \in DOMAIN players_csv :
            players_csv[i].represented_country # "" =>
                /\ written[i].represented_country # ""
                /\ ~main.overwrite_ioc =>
                       written[i].represented_country
                           = players_csv[i].represented_country]_vars

\* C28: a merge stage run again over the store it has just written and the same
\* ranking files finds no new id and writes the same store, row by row and cell by
\* cell.
C28_MergeIdempotent ==
    [][MergeStage =>
        /\ find_new_ids(load_players(players_csv'), load_rankings(ranks')) = {}
        /\ Len(merge_stage(players_csv', ranks')) = Len(players_csv')
        /\ merge_stage(players_csv', ranks') = players_csv']_vars

\* the merge stage has added players and moved the last_appearance of a known one
C28_Witness ==
    /\ stdout = AddedPlayers
    /\ Len(players_csv) > 1
    /\ players_csv[1].player_id = 1001
    /\ players_csv[1].first_appearance < players_csv[1].last_appearance

other_columns == {StoreColumns[k] : k \in DOMAIN StoreColumns} \ {"last_appearance"}

\* C29: update_last_appearances returns the rows of its input, in their order, with
\* every column other than last_appearance as it was; the merge stage leaves those
\* columns of every row the store already had as they were.
C29_UpdateFrame ==
    /\ [](LET U == update_last_appearances(P_now, R_now)
          IN /\ U.columns = P_now.columns
             /\ DOMAIN U.rows = DOMAIN P_now.rows
             /\ \A i \in DOMAIN P_now.rows : \A c \in other_columns :
                    U.rows[i][c] = P_now.rows[i][c])
    /\ [][MergeStage =>
            \A i \in DOMAIN players_csv : \A c \in other_columns :
                players_csv'[i][c] = players_csv[i][c]]_vars

\* the merge stage ran over a known player who was observed with a better rank than
\* the stored best_rank and on an earlier date than the stored first_appearance
C29_Witness ==
    /\ stdout \in {AddedPlayers, NoNewPlayers}
    /\ \E i \in DOMAIN players_csv : \E j \in DOMAIN ranks :
        /\ ranks[j].player_id = players_csv[i].player_id
        /\ ranks[j].ranking < players_csv[i].best_rank
        /\ ranks[j].date < players_csv[i].first_appearance

\* the player is in the ranking snapshot with the latest date
in_latest(pid) ==
    \E j \in DOMAIN ranks :
        ranks[j].player_id = pid /\ \A k \in DOMAIN ranks : ranks[k].date <= ranks[j].date

\* position of row i in the list of the active players
position(i) ==
    Cardinality({k \in Rows : k < i /\ in_latest(players_csv[k + 1].player_id)})

\* C25: a cell that the run holds with another value than the persisted table is in
\* a target column of the row of an active player whose position among the active
\* players is in [start_index, end_index); the run keeps the rows of the table.
C25_EnrichmentFrame ==
    pc = "loop" =>
        /\ DOMAIN df = DOMAIN players_csv
        /\ \A i \in Rows : \A c \in DOMAIN players_csv[i + 1] :
            cell_now(i, c) # cell_before(i, c) =>
                /\ c \in Cols
                /\ in_latest(players_csv[i + 1].player_id)
                /\ cfg.start_index <= position(i)
                /\ (cfg.end_index = <<>> \/ position(i) < cfg.end_index[1])

\* at the end of a batch that starts at the second active player, a cell of that
\* player is changed while the first active player and the non-active one still
\* have empty cells
C25_Witness ==
    /\ pc = "loop"
    /\ pos >= end_index
    /\ cfg.start_index = 1
    /\ \E c \in Cols : cell_now(1, c) # cell_before(1, c)
    /\ \E c \in Cols : cell_before(0, c) = ""
    /\ \E c \in Cols : cell_before(2, c) = ""

-----------------------------------------------------------------------------

Next ==
    \/ StartRun
    \/ EnrichPlayer
    \/ Kill
    \/ WriteTable
    \/ WriteSummary
    \/ MarkReject
    \/ Revert

Spec == Init /\ [][Next]_vars

\* enrichment runs over a batch of the active players
NextBatch ==
    \/ StartRun
    \/ EnrichPlayer
    \/ WriteTable
    \/ WriteSummary

SpecBatch == InitBatch /\ [][NextBatch]_vars

\* merge stage, enrichment runs, reviewer and reverts over one store
NextPipeline ==
    \/ MergeStage
    \/ StartRun
    \/ EnrichPlayer
    \/ WriteTable
    \/ WriteSummary
    \/ MarkReject
    \/ Revert

SpecPipeline == InitPipeline /\ [][NextPipeline]_vars

====
